---- MODULE Spec2Model ----
(***************************************************************************)
(* Model of the PostgreSQL-aware TCP proxy:                                *)
(*   - PostgresHandler.Handshake / rebuildStartupMessage (startup codec,   *)
(*     tenant parser, replay bytes), as operators over byte sequences;     *)
(*   - Server.Serve / Server.handleConnection (accept loop, per-connection *)
(*     worker, resolve, dial, replay, relay, teardown), as actions.        *)
(* Bytes are integers 0..255; Go strings and []byte are sequences of bytes.*)
(***************************************************************************)
EXTENDS Integers, Sequences, FiniteSets, TLC

\* ------------------------------------------------------------------------
\* Byte strings used by the code (string literals of the source)
\* ------------------------------------------------------------------------
sslRequestCode == 80877103

kUser == <<117, 115, 101, 114>>
kUsername == <<117, 115, 101, 114, 110, 97, 109, 101>>
kPooled == <<112, 111, 111, 108, 101, 100>>
kDeploymentId == <<100, 101, 112, 108, 111, 121, 109, 101, 110, 116, 95, 105, 100>>
kRawStartupMessage == <<95, 114, 97, 119, 95, 115, 116, 97, 114, 116, 117, 112, 95, 109, 101, 115, 115, 97, 103, 101>>
kDatabase == <<100, 97, 116, 97, 98, 97, 115, 101>>
sPool == <<112, 111, 111, 108>>
sTrue == <<116, 114, 117, 101>>
sFalse == <<102, 97, 108, 115, 101>>
DotByte == 46

\* ------------------------------------------------------------------------
\* encoding/binary.BigEndian and the int32 conversion.  A 32-bit word is held
\* as the two's-complement number of its bit pattern (-2^31 .. 2^31-1), so
\* a uint32 above 2^31-1 is the negative number with the same bits.
\* ------------------------------------------------------------------------
PutUint32(n) ==
    << (n \div 16777216) % 256, (n \div 65536) % 256, (n \div 256) % 256, n % 256 >>

Uint32(b) ==
    (IF b[1] >= 128 THEN b[1] - 256 ELSE b[1]) * 16777216
        + b[2] * 65536 + b[3] * 256 + b[4]

\* int32(u): the same bit pattern read as a signed number
Int32(u) == u

\* ------------------------------------------------------------------------
\* map[string]string as a function from byte strings to byte strings
\* ------------------------------------------------------------------------
EmptyMap == [k \in {} |-> <<>>]

MapSet(m, k, v) == [x \in (DOMAIN m) \cup {k} |-> IF x = k THEN v ELSE m[x]]

Has(m, k) == k \in DOMAIN m

\* index of the first occurrence of byte d in s, 0 when there is none
IndexByte(s, d) ==
    IF \E i \in 1..Len(s) : s[i] = d
    THEN CHOOSE i \in 1..Len(s) : s[i] = d /\ \A j \in 1..(i - 1) : s[j] # d
    ELSE 0

Tail0(s, i) == SubSeq(s, i + 1, Len(s))

\* ------------------------------------------------------------------------
\* Handshake, lines 108-132: the key/value loop over payload[4:]
\* bytes.Buffer.ReadString(0) returns io.EOF when no delimiter is left.
\* ------------------------------------------------------------------------
\* variant that takes a missing value terminator for the end of the input
RECURSIVE ParseLoop_ValueEOF(_, _)
ParseLoop_ValueEOF(buf, params) ==
    LET i == IndexByte(buf, 0) IN
    IF i = 0
    THEN [err |-> "", params |-> params]
    ELSE LET key  == SubSeq(buf, 1, i - 1)
             rest == Tail0(buf, i)
             j    == IndexByte(rest, 0)
         IN  IF key = <<>> \/ j = 0
             THEN [err |-> "", params |-> params]
             ELSE ParseLoop_ValueEOF(Tail0(rest, j),
                                     MapSet(params, key, SubSeq(rest, 1, j - 1)))

RECURSIVE ParseLoop(_, _)
ParseLoop(buf, params) ==
    LET i == IndexByte(buf, 0) IN
    IF i = 0
    THEN [err |-> "", params |-> params]
    ELSE LET key  == SubSeq(buf, 1, i - 1)
             rest == Tail0(buf, i)
             j    == IndexByte(rest, 0)
         IN  IF key = <<>>
             THEN [err |-> "", params |-> params]
             ELSE IF j = 0
                  THEN [err |-> "malformed startup message", params |-> EmptyMap]
                  ELSE ParseLoop(Tail0(rest, j), MapSet(params, key, SubSeq(rest, 1, j - 1)))

ParseParams(payload) == ParseLoop(SubSeq(payload, 5, Len(payload)), EmptyMap)

\* ------------------------------------------------------------------------
\* strings.Split(user, ".") and strings.Join(parts, ".")
\* ------------------------------------------------------------------------
RECURSIVE Split(_)
Split(s) ==
    LET i == IndexByte(s, DotByte) IN
    IF i = 0 THEN <<s>> ELSE <<SubSeq(s, 1, i - 1)>> \o Split(Tail0(s, i))

\* variant that concatenates the parts without the separator
RECURSIVE Join_NoSep(_)
Join_NoSep(parts) ==
    IF Len(parts) = 0 THEN <<>>
    ELSE parts[1] \o Join_NoSep(Tail(parts))

RECURSIVE Join(_)
Join(parts) ==
    IF Len(parts) = 0 THEN <<>>
    ELSE IF Len(parts) = 1 THEN parts[1]
    ELSE parts[1] \o <<DotByte>> \o Join(Tail(parts))

\* ------------------------------------------------------------------------
\* Handshake, lines 134-157: tenant parser over params["user"]
\* ------------------------------------------------------------------------
\* variant without the else branch of lines 151-156
TenantParse_NoFallback(params) ==
    IF ~Has(params, kUser) THEN params
    ELSE LET parts == Split(params[kUser])
             n     == Len(parts)
         IN  IF n >= 2
             THEN IF parts[n] = sPool
                  THEN LET p1 == MapSet(params, kPooled, sTrue) IN
                       IF n >= 3
                       THEN MapSet(MapSet(p1, kDeploymentId, parts[n - 1]),
                                   kUsername, Join(SubSeq(parts, 1, n - 2)))
                       ELSE p1
                  ELSE MapSet(MapSet(MapSet(params, kPooled, sFalse),
                                     kDeploymentId, parts[n]),
                              kUsername, Join(SubSeq(parts, 1, n - 1)))
             ELSE params

TenantParse(params) ==
    IF ~Has(params, kUser) THEN params
    ELSE LET parts == Split(params[kUser])
             n     == Len(parts)
         IN  IF n >= 2
             THEN IF parts[n] = sPool
                  THEN LET p1 == MapSet(params, kPooled, sTrue) IN
                       IF n >= 3
                       THEN MapSet(MapSet(p1, kDeploymentId, parts[n - 1]),
                                   kUsername, Join(SubSeq(parts, 1, n - 2)))
                       ELSE p1
                  ELSE MapSet(MapSet(MapSet(params, kPooled, sFalse),
                                     kDeploymentId, parts[n]),
                              kUsername, Join(SubSeq(parts, 1, n - 1)))
             ELSE MapSet(params, kPooled, sFalse)

\* ------------------------------------------------------------------------
\* rebuildStartupMessage, lines 225-250.  Go iterates a map in an unspecified
\* order: order is the sequence of keys the second range loop visits.
\* ------------------------------------------------------------------------
RECURSIVE SumLen(_, _)
SumLen(params, keys) ==
    IF keys = {} THEN 0
    ELSE LET k == CHOOSE x \in keys : TRUE
         IN  Len(k) + 1 + Len(params[k]) + 1 + SumLen(params, keys \ {k})

RECURSIVE EmitPairs(_, _)
EmitPairs(params, order) ==
    IF Len(order) = 0 THEN <<>>
    ELSE order[1] \o <<0>> \o params[order[1]] \o <<0>> \o EmitPairs(params, Tail(order))

\* variant that does not advance past the NUL after a key (line 242): the
\* value overwrites it and the frame is padded to its declared length
RECURSIVE EmitPairsNoSep(_, _)
EmitPairsNoSep(params, order) ==
    IF Len(order) = 0 THEN <<>>
    ELSE order[1] \o params[order[1]] \o <<0>> \o EmitPairsNoSep(params, Tail(order))

rebuildStartupMessage_NoSep(protocolVersion, params, order) ==
    LET totalLength == 4 + 4 + SumLen(params, DOMAIN params) + 1
        body == EmitPairsNoSep(params, order)
    IN  PutUint32(totalLength) \o PutUint32(protocolVersion) \o body
            \o [i \in 1..(totalLength - 8 - Len(body)) |-> 0]

rebuildStartupMessage(protocolVersion, params, order) ==
    LET totalLength == 4 + 4 + SumLen(params, DOMAIN params) + 1
    IN  PutUint32(totalLength) \o PutUint32(protocolVersion)
            \o EmitPairs(params, order) \o <<0>>

\* every order in which a range loop can visit the keys of a map
Orders(m) ==
    LET S == DOMAIN m
        n == Cardinality(S)
    IN  { o \in [1..n -> S] : \A i, j \in 1..n : o[i] = o[j] => i = j }

\* ------------------------------------------------------------------------
\* Handshake, lines 60-75: read one framed message from the connection.
\* stream holds the bytes the peer delivers before it closes its side
\* (io.ReadFull fails when they run out).
\* ------------------------------------------------------------------------
\* variant that reads through a buffer and leaves what the buffer took behind
ReadFrame_Buffered(stream) ==
    IF Len(stream) < 4
    THEN [err |-> "failed to read message length", header |-> <<>>, payload |-> <<>>, rest |-> <<>>]
    ELSE LET header == SubSeq(stream, 1, 4)
             length == Int32(Uint32(header))
         IN  IF length < 4
             THEN [err |-> "invalid message length", header |-> header, payload |-> <<>>,
                   rest |-> Tail0(stream, 4)]
             ELSE IF Len(stream) < length
                  THEN [err |-> "failed to read message body", header |-> header,
                        payload |-> <<>>, rest |-> <<>>]
                  ELSE [err |-> "", header |-> header, payload |-> SubSeq(stream, 5, length),
                        rest |-> <<>>]

ReadFrame(stream) ==
    IF Len(stream) < 4
    THEN [err |-> "failed to read message length", header |-> <<>>, payload |-> <<>>, rest |-> <<>>]
    ELSE LET header == SubSeq(stream, 1, 4)
             length == Int32(Uint32(header))
         IN  IF length < 4
             THEN [err |-> "invalid message length", header |-> header, payload |-> <<>>,
                   rest |-> Tail0(stream, 4)]
             ELSE IF Len(stream) < length
                  THEN [err |-> "failed to read message body", header |-> header,
                        payload |-> <<>>, rest |-> <<>>]
                  ELSE [err |-> "", header |-> header, payload |-> SubSeq(stream, 5, length),
                        rest |-> Tail0(stream, length)]

\* variant that takes only the 8-byte frame for an SSLRequest
IsSSLRequest_Strict(payload) ==
    Len(payload) = 4 /\ Int32(Uint32(SubSeq(payload, 1, 4))) = sslRequestCode

\* Handshake, lines 77-80: the SSLRequest test
IsSSLRequest(payload) ==
    Len(payload) >= 4 /\ Int32(Uint32(SubSeq(payload, 1, 4))) = sslRequestCode

\* Handshake, lines 167-168: was the user name modified?
NeedsRewrite(params) ==
    /\ Has(params, kUser)
    /\ Has(params, kUsername)
    /\ params[kUsername] # params[kUser]

\* Handshake, lines 174-182: the parameters handed to rebuildStartupMessage
buildParams(params) ==
    LET kept == (DOMAIN params) \ {kDeploymentId, kPooled, kUsername}
    IN  MapSet([k \in kept |-> params[k]], kUser, params[kUsername])

\* the orders in which the rebuild of this payload may visit its parameters
RebuildOrders(payload) ==
    IF Len(payload) < 4 THEN {<<>>}
    ELSE LET parsed == ParseParams(payload) IN
         IF parsed.err # "" THEN {<<>>}
         ELSE LET params == TenantParse(parsed.params) IN
              IF NeedsRewrite(params) THEN Orders(buildParams(params)) ELSE {<<>>}

\* Handshake, lines 102-222: the startup branch; returns (metadata, err)
HandshakeStartup(header, payload, order) ==
    IF Len(payload) < 4
    THEN [err |-> "payload too short", metadata |-> EmptyMap]
    ELSE LET parsed == ParseParams(payload) IN
         IF parsed.err # ""
         THEN [err |-> parsed.err, metadata |-> EmptyMap]
         ELSE LET params == TenantParse(parsed.params) IN
              IF ~Has(params, kUser)
              THEN [err |-> "", metadata |-> params]
              ELSE IF NeedsRewrite(params)
                   THEN [err |-> "",
                         metadata |-> MapSet(params, kRawStartupMessage,
                             rebuildStartupMessage(Uint32(SubSeq(payload, 1, 4)),
                                                   buildParams(params), order))]
                   ELSE [err |-> "",
                         metadata |-> MapSet(params, kRawStartupMessage, header \o payload)]

\* ========================================================================
\* Inputs of the codec specification: client byte streams
\* ========================================================================
MaxPairs == 2

ProtocolV3 == 3 * 65536

\* key/value pairs a client may put in its startup frame
ClientPairs ==
    { <<kUser, <<115, 111, 108, 111>>>>,                      \* user=solo
      <<kUser, <<97, 46, 100>>>>,                             \* user=a.d
      <<kUser, <<97, 46, 100, 46, 112, 111, 111, 108>>>>,     \* user=a.d.pool
      <<kUser, <<120, 46, 112, 111, 111, 108>>>>,             \* user=x.pool
      <<kUser, <<97, 46, 98, 46, 99, 46, 100, 101, 112, 52, 50, 46, 112, 111, 111, 108>>>>,
                                                              \* user=a.b.c.dep42.pool
      <<kUser, <<>>>>,                                        \* user=
      <<kUser, <<46>>>>,                                      \* user=.
      <<kUser, sPool>>,                                       \* user=pool
      <<kUser, <<46>> \o sPool>>,                             \* user=.pool
      <<kUser, <<97, 46, 46>> \o sPool>>,                     \* user=a..pool
      <<kUser, <<97, 46>> \o sPool \o <<46>> \o sPool>>,      \* user=a.pool.pool
      <<kDatabase, <<97, 112, 112>>>>,                        \* database=app
      <<kUsername, <<98, 111, 98>>>>,                         \* username=bob
      <<kUsername, <<115, 111, 108, 111>>>>,                  \* username=solo
      <<kPooled, <<120>>>>,                                   \* pooled=x
      <<kDeploymentId, <<122, 122>>>>,                        \* deployment_id=zz
      <<kRawStartupMessage, <<120>>>> }                       \* _raw_startup_message=x

PairSeqs == UNION { [1..n -> ClientPairs] : n \in 0..MaxPairs }

RECURSIVE PairBytes(_)
PairBytes(ps) ==
    IF Len(ps) = 0 THEN <<>>
    ELSE ps[1][1] \o <<0>> \o ps[1][2] \o <<0>> \o PairBytes(Tail(ps))

\* what follows the pairs: the terminator, nothing, a key or a value cut short,
\* a key without a value, bytes after the terminator
FrameTails ==
    { <<0>>, <<>>, <<107>>, <<107, 0>>, <<107, 0, 118>>, <<0, 107, 0, 118, 0>> }

MkFrame(version, body) == PutUint32(4 + 4 + Len(body)) \o PutUint32(version) \o body

StartupStreams ==
    { MkFrame(ProtocolV3, PairBytes(ps) \o t) : ps \in PairSeqs, t \in FrameTails }

SSLRequestFrame == <<0, 0, 0, 8, 4, 210, 22, 47>>

SpecialStreams ==
    { <<>>,                                           \* closes at once
      <<0, 0>>,                                       \* closes inside the header
      <<0, 0, 0, 3>>,                                 \* declared length 3
      <<0, 0, 0, 0>>,                                 \* declared length 0
      <<255, 255, 255, 255>>,                         \* declared length -1 as int32
      <<0, 0, 0, 4>>,                                 \* empty payload
      <<0, 0, 0, 6, 0, 3>>,                           \* 2-byte payload
      <<0, 0, 0, 7, 4, 210, 22>>,                     \* 3 bytes of the sentinel
      <<0, 0, 3, 232>>,                               \* declares 1000, then closes
      <<0, 0, 3, 232, 0, 3, 0, 0>>,                   \* declares 1000, sends 4
      <<0, 1, 0, 1>>,                                 \* declares 65537, then closes
      <<0, 1, 0, 1, 0, 3, 0, 0, 117, 0>>,             \* declares 65537, sends 6
      <<127, 255, 255, 255, 0, 3, 0, 0>>,             \* declares 2^31 - 1, sends 4
      SSLRequestFrame,
      SSLRequestFrame \o <<22, 3, 1>>,                \* SSLRequest, then more bytes
      <<0, 0, 0, 12, 4, 210, 22, 47, 117, 0, 120, 0>>, \* sentinel, length 12
      <<0, 0, 0, 8, 4, 210, 22, 46>>,                 \* 80877102
      <<0, 0, 0, 8, 47, 22, 210, 4>>,                 \* sentinel bytes reversed
      <<0, 0, 0, 12, 0, 3, 0, 0, 4, 210, 22, 47>>,    \* sentinel not at the front
      MkFrame(ProtocolV3, <<0>>) \o <<81>>,          \* a frame, then one more byte
      \* SSLRequest, then user=a.d.pool over TLS
      SSLRequestFrame \o MkFrame(ProtocolV3,
          PairBytes(<< <<kUser, <<97, 46, 100, 46, 112, 111, 111, 108>>>> >>) \o <<0>>),
      \* three SSLRequests, then an empty parameter list
      SSLRequestFrame \o SSLRequestFrame \o SSLRequestFrame \o MkFrame(ProtocolV3, <<0>>),
      \* two SSLRequests, then database=app
      SSLRequestFrame \o SSLRequestFrame \o MkFrame(ProtocolV3,
          PairBytes(<< <<kDatabase, <<97, 112, 112>>>> >>) \o <<0>>) }

CodecStreams == StartupStreams \cup SpecialStreams

\* ========================================================================
\* State of the proxy process
\* ========================================================================
NumConns == 2

Conns == 1..NumConns

NilConn == 0 - 1

VARIABLES
    proc,        \* the process: "running", "crashed" (unrecovered panic), "exited"
    serve,       \* Server.Serve: "accepting" or "returned"
    accepted,    \* number of connections Accept has returned
    pc,          \* per connection: where its handleConnection worker stands
    cin,         \* bytes the client still delivers on its connection
    cclose,      \* does the client close its side once cin is delivered?
    layer,       \* TLS wrappers around the conn the running Handshake call reads
    frames,      \* frames Handshake has read: header, payload, layer, class
    cout,        \* writes of the proxy to the client: layer, origin, bytes
    clientConn,  \* the worker's variable clientConn: NilConn or a layer
    metadata,    \* the metadata Handshake returned
    hsErr,       \* the error Handshake returned, "" for nil
    csock,       \* client socket: "none", "open", "closed", "reset"
    bsock,       \* backend socket: "none", "open", "closed", "reset"
    resolveCalls,\* calls of Resolver.Resolve made for the connection
    backendAddr, \* the address Resolve returned, "" before and on error
    dialCalls,   \* calls of net.Dial made for the connection
    bin,         \* bytes written to the backend, in order
    replayed,    \* the bytes written by the replay step
    bout,        \* bytes the backend still delivers
    bclose,      \* does the backend close its side once bout is delivered?
    up,          \* copy task client -> backend: "none", "run", "done"
    down,        \* copy task backend -> client: "none", "run", "done"
    upSrc,       \* the conn (layer) the client -> backend copy has read from
    resolveWait, \* seconds the Resolve call of the connection has taken
    rt           \* re-encoding of a decoded frame and its decoding

connVars == <<pc, cin, cclose, layer, frames, cout, clientConn, metadata, hsErr,
              csock, bsock, resolveCalls, backendAddr, dialCalls, bin, replayed, bout,
              bclose, up, down, upSrc, resolveWait>>

vars == <<proc, serve, accepted, connVars, rt>>

RtNone ==
    [kind |-> "none", bytes |-> <<>>, version |-> 0, params |-> EmptyMap,
     err |-> "", dversion |-> 0, dparams |-> EmptyMap]

\* state shared by both specifications before any connection is accepted
IdleConns ==
    /\ pc = [c \in Conns |-> "idle"]
    /\ cin = [c \in Conns |-> <<>>]
    /\ cclose = [c \in Conns |-> FALSE]
    /\ layer = [c \in Conns |-> 0]
    /\ frames = [c \in Conns |-> <<>>]
    /\ cout = [c \in Conns |-> <<>>]
    /\ clientConn = [c \in Conns |-> NilConn]
    /\ metadata = [c \in Conns |-> EmptyMap]
    /\ hsErr = [c \in Conns |-> ""]
    /\ csock = [c \in Conns |-> "none"]
    /\ bsock = [c \in Conns |-> "none"]
    /\ resolveCalls = [c \in Conns |-> 0]
    /\ backendAddr = [c \in Conns |-> ""]
    /\ dialCalls = [c \in Conns |-> 0]
    /\ bin = [c \in Conns |-> <<>>]
    /\ replayed = [c \in Conns |-> <<>>]
    /\ bout = [c \in Conns |-> <<>>]
    /\ bclose = [c \in Conns |-> FALSE]
    /\ up = [c \in Conns |-> "none"]
    /\ down = [c \in Conns |-> "none"]
    /\ upSrc = [c \in Conns |-> NilConn]
    /\ resolveWait = [c \in Conns |-> 0]

\* ========================================================================
\* PostgresHandler.Handshake as steps of the worker that called it
\* ========================================================================
\* variant whose length field does not count its own four bytes (line 46)
sendErrorResponse_BodyLength(errResp) ==
    LET msgData == <<83>> \o errResp.Severity \o <<0>>
                       \o <<67>> \o errResp.Code \o <<0>>
                       \o <<77>> \o errResp.Message \o <<0>>
                       \o <<0>>
    IN  <<69>> \o PutUint32(Len(msgData)) \o msgData

\* variant without the final terminator of line 43
sendErrorResponse_NoTerminator(errResp) ==
    LET msgData == <<83>> \o errResp.Severity \o <<0>>
                       \o <<67>> \o errResp.Code \o <<0>>
                       \o <<77>> \o errResp.Message \o <<0>>
    IN  <<69>> \o PutUint32(4 + Len(msgData)) \o msgData

\* sendErrorResponse, lines 32-48: the message it writes
sendErrorResponse(errResp) ==
    LET msgData == <<83>> \o errResp.Severity \o <<0>>
                       \o <<67>> \o errResp.Code \o <<0>>
                       \o <<77>> \o errResp.Message \o <<0>>
                       \o <<0>>
    IN  <<69>> \o PutUint32(4 + Len(msgData)) \o msgData

\* the ErrorResponse of lines 89-93 ("TLS handshake failed: ...")
TLSFailure ==
    [Severity |-> <<70, 65, 84, 65, 76>>,
     Code     |-> <<48, 56, 48, 48, 54>>,
     Message  |-> <<84, 76, 83, 32, 104, 97, 110, 100, 115, 104, 97, 107, 101, 32,
                    102, 97, 105, 108, 101, 100>>]

\* Handshake returns (nil, nil, err) to handleConnection, line 122
HandshakeReturnsError(c, e) ==
    /\ pc' = [pc EXCEPT ![c] = "hsReturned"]
    /\ hsErr' = [hsErr EXCEPT ![c] = e]
    /\ clientConn' = [clientConn EXCEPT ![c] = NilConn]
    /\ metadata' = [metadata EXCEPT ![c] = EmptyMap]

\* variant that returns the first TLS wrapper instead of the conn it read from
HandshakeReturns_FirstWrapper(c, md) ==
    /\ pc' = [pc EXCEPT ![c] = "hsReturned"]
    /\ hsErr' = [hsErr EXCEPT ![c] = ""]
    /\ clientConn' = [clientConn EXCEPT ![c] = IF layer[c] > 1 THEN 1 ELSE layer[c]]
    /\ metadata' = [metadata EXCEPT ![c] = md]

\* Handshake returns (metadata, conn, nil) to handleConnection, line 122
HandshakeReturns(c, md) ==
    /\ pc' = [pc EXCEPT ![c] = "hsReturned"]
    /\ hsErr' = [hsErr EXCEPT ![c] = ""]
    /\ clientConn' = [clientConn EXCEPT ![c] = layer[c]]
    /\ metadata' = [metadata EXCEPT ![c] = md]

\* the frames of a connection in the order Handshake read their headers: the
\* header, the payload when it was read in full, the conn (layer) it was read
\* from, and what Handshake took the frame for
LogFrame(c, header, payload, class) ==
    frames' = [frames EXCEPT ![c] =
                 Append(@, [header |-> header, payload |-> payload,
                            layer |-> layer[c], class |-> class])]

\* Handshake, lines 59-84 and 102-223: read one frame from conn and act on it.
\* io.ReadFull blocks until the bytes are there or the peer has closed.
HsFrame(c) ==
    /\ proc = "running"
    /\ pc[c] = "hsRead"
    /\ LET f == ReadFrame(cin[c]) IN
       /\ f.err \in {"", "invalid message length"} \/ cclose[c]
       /\ cin' = [cin EXCEPT ![c] = f.rest]
       /\ IF f.err # ""
          THEN /\ HandshakeReturnsError(c, f.err)
               /\ IF f.header = <<>>
                  THEN UNCHANGED frames
                  ELSE LogFrame(c, f.header, <<>>,
                                IF f.err = "invalid message length" THEN "invalid"
                                                                    ELSE "unread")
               /\ UNCHANGED cout
          ELSE IF IsSSLRequest(f.payload)
          THEN /\ LogFrame(c, f.header, f.payload, "ssl")
               /\ \E written \in BOOLEAN :
                    IF written
                    THEN /\ cout' = [cout EXCEPT ![c] = Append(@,
                                 [layer |-> layer[c], from |-> "handshake",
                                  frame |-> Len(frames[c]) + 1, data |-> <<83>>])]
                         /\ pc' = [pc EXCEPT ![c] = "hsTLS"]
                         /\ UNCHANGED <<hsErr, clientConn, metadata>>
                    ELSE /\ HandshakeReturnsError(c, "failed to write SSL response")
                         /\ UNCHANGED cout
          ELSE \E order \in RebuildOrders(f.payload) :
                 LET r == HandshakeStartup(f.header, f.payload, order) IN
                 /\ LogFrame(c, f.header, f.payload, IF r.err = "" THEN "startup" ELSE "rejected")
                 /\ IF r.err = "" THEN HandshakeReturns(c, r.metadata)
                                  ELSE HandshakeReturnsError(c, r.err)
                 /\ UNCHANGED cout
    /\ UNCHANGED <<proc, serve, accepted, cclose, layer, csock, bsock, resolveCalls,
                   backendAddr, dialCalls, bin, replayed, bout, bclose, up, down,
                   upSrc, resolveWait, rt>>

\* variant whose recursive call reads from conn instead of tlsConn (line 99)
HsTLS_NoWrap(c) ==
    /\ proc = "running"
    /\ pc[c] = "hsTLS"
    /\ \E ok \in BOOLEAN :
         IF ok
         THEN /\ pc' = [pc EXCEPT ![c] = "hsRead"]
              /\ UNCHANGED <<layer, cout, hsErr, clientConn, metadata>>
         ELSE /\ \E written \in BOOLEAN :
                   cout' = [cout EXCEPT ![c] =
                       IF written
                       THEN Append(@, [layer |-> layer[c], from |-> "handshake",
                                       frame |-> Len(frames[c]),
                                       data |-> sendErrorResponse(TLSFailure)])
                       ELSE @]
              /\ HandshakeReturnsError(c, "tls handshake failed")
              /\ UNCHANGED layer
    /\ UNCHANGED <<proc, serve, accepted, cin, cclose, frames, csock, bsock,
                   resolveCalls, backendAddr, dialCalls, bin, replayed, bout, bclose,
                   up, down, upSrc, resolveWait, rt>>

\* Handshake, lines 86-99: tls.Server(conn).Handshake(), then the recursive call
\* on the wrapper, or the ErrorResponse on the plain conn and the error return
HsTLS(c) ==
    /\ proc = "running"
    /\ pc[c] = "hsTLS"
    /\ \E ok \in BOOLEAN :
         IF ok
         THEN /\ layer' = [layer EXCEPT ![c] = @ + 1]
              /\ pc' = [pc EXCEPT ![c] = "hsRead"]
              /\ UNCHANGED <<cout, hsErr, clientConn, metadata>>
         ELSE /\ \E written \in BOOLEAN :
                   cout' = [cout EXCEPT ![c] =
                       IF written
                       THEN Append(@, [layer |-> layer[c], from |-> "handshake",
                                       frame |-> Len(frames[c]),
                                       data |-> sendErrorResponse(TLSFailure)])
                       ELSE @]
              /\ HandshakeReturnsError(c, "tls handshake failed")
              /\ UNCHANGED layer
    /\ UNCHANGED <<proc, serve, accepted, cin, cclose, frames, csock, bsock,
                   resolveCalls, backendAddr, dialCalls, bin, replayed, bout, bclose,
                   up, down, upSrc, resolveWait, rt>>

\* ========================================================================
\* memory.Resolver: the static map of STATIC_BACKENDS, keyed by database
\* ========================================================================
backends == [db \in {<<97, 112, 112>>} |-> "10.0.0.1:5432"]

\* Resolver.Resolve, resolver.go lines 39-50
MemoryResolve(md) ==
    LET database == IF Has(md, kDatabase) THEN md[kDatabase] ELSE <<>> IN
    IF database \in DOMAIN backends
    THEN [addr |-> backends[database], err |-> ""]
    ELSE [addr |-> "", err |-> "backend not found for database"]

\* ========================================================================
\* Server.Serve and Server.handleConnection
\* ========================================================================
\* the connections of the server specification: what the client sends, whether
\* it closes its side afterwards, and whether the backend it is routed to
\* closes its side after its answer
ClientScripts ==
    { \* user=a.d database=app, then a query byte: the rewritten replay
      [bytes |-> MkFrame(ProtocolV3, PairBytes(<< <<kUser, <<97, 46, 100>>>>,
                                                  <<kDatabase, <<97, 112, 112>>>> >>) \o <<0>>)
                    \o <<81>>,
       close |-> TRUE, bclose |-> TRUE],
      \* database=app only, then a query byte
      [bytes |-> MkFrame(ProtocolV3, PairBytes(<< <<kDatabase, <<97, 112, 112>>>> >>) \o <<0>>)
                    \o <<81>>,
       close |-> FALSE, bclose |-> TRUE],
      \* SSLRequest, then user=solo database=app and a query byte over TLS: the
      \* verbatim replay
      [bytes |-> SSLRequestFrame
                    \o MkFrame(ProtocolV3, PairBytes(<< <<kUser, <<115, 111, 108, 111>>>>,
                                                        <<kDatabase, <<97, 112, 112>>>> >>) \o <<0>>)
                    \o <<81>>,
       close |-> TRUE, bclose |-> FALSE],
      \* user=a.d and a database the resolver does not know
      [bytes |-> MkFrame(ProtocolV3, PairBytes(<< <<kUser, <<97, 46, 100>>>>,
                                                  <<kDatabase, <<122>>>> >>) \o <<0>>),
       close |-> FALSE, bclose |-> FALSE],
      \* declares 1000 bytes, then closes
      [bytes |-> <<0, 0, 3, 232>>, close |-> TRUE, bclose |-> FALSE] }

\* variant without the deferred backendConn.Close() of line 145
RunDeferred_NoBackendClose(c, dialed) ==
    /\ csock' = [csock EXCEPT ![c] = "closed"]
    /\ UNCHANGED bsock

\* the deferred calls of handleConnection run: backendConn.Close() when the
\* dial had succeeded (line 145), clientConn.Close() on the accepted conn
\* (line 118)
RunDeferred(c, dialed) ==
    /\ csock' = [csock EXCEPT ![c] = "closed"]
    /\ bsock' = [bsock EXCEPT ![c] = IF dialed THEN "closed" ELSE @]

\* Serve, lines 108-113: Accept returns a connection, go handleConnection(conn)
Accept(c) ==
    /\ proc = "running"
    /\ serve = "accepting"
    /\ c = accepted + 1
    /\ accepted' = c
    /\ \E s \in ClientScripts :
         /\ cin' = [cin EXCEPT ![c] = s.bytes]
         /\ cclose' = [cclose EXCEPT ![c] = s.close]
         /\ bclose' = [bclose EXCEPT ![c] = s.bclose]
    /\ pc' = [pc EXCEPT ![c] = "hsRead"]
    /\ csock' = [csock EXCEPT ![c] = "open"]
    /\ UNCHANGED <<proc, serve, layer, frames, cout, clientConn, metadata, hsErr,
                   bsock, resolveCalls, backendAddr, dialCalls, bin, replayed, bout,
                   up, down, upSrc, resolveWait, rt>>

\* the sockets of a process that dies are closed by the operating system
ProcessDies(except) ==
    /\ csock' = [d \in Conns |->
                   IF d = except THEN "closed"
                   ELSE IF csock[d] = "open" THEN "reset" ELSE csock[d]]
    /\ bsock' = [d \in Conns |-> IF bsock[d] = "open" THEN "reset" ELSE bsock[d]]

\* Serve, lines 110-112: Accept fails and Serve returns the error; main then
\* calls log.Fatalf, which exits the process
AcceptError ==
    /\ proc = "running"
    /\ serve = "accepting"
    /\ serve' = "returned"
    /\ proc' = "exited"
    /\ ProcessDies(0)
    /\ UNCHANGED <<accepted, pc, cin, cclose, layer, frames, cout, clientConn,
                   metadata, hsErr, resolveCalls, backendAddr, dialCalls, bin,
                   replayed, bout, bclose, up, down, upSrc, resolveWait, rt>>

\* handleConnection, lines 123-126: the error branch.  Its log call evaluates
\* clientConn.RemoteAddr() on the conn Handshake returned; on a nil conn this
\* is a nil dereference: the goroutine panics, its deferred Close runs, and the
\* unrecovered panic ends the process.
HandshakeError(c) ==
    /\ proc = "running"
    /\ pc[c] = "hsReturned"
    /\ hsErr[c] # ""
    /\ IF clientConn[c] = NilConn
       THEN /\ pc' = [pc EXCEPT ![c] = "panicked"]
            /\ proc' = "crashed"
            /\ ProcessDies(c)
       ELSE /\ pc' = [pc EXCEPT ![c] = "done"]
            /\ RunDeferred(c, FALSE)
            /\ UNCHANGED proc
    /\ UNCHANGED <<serve, accepted, cin, cclose, layer, frames, cout, clientConn,
                   metadata, hsErr, resolveCalls, backendAddr, dialCalls, bin,
                   replayed, bout, bclose, up, down, upSrc, resolveWait, rt>>

\* context.WithTimeout(context.Background(), 5*time.Second), line 130: seconds
ResolveDeadline == 5

\* a resolver that honors the context: a call that has not answered when the
\* deadline passes returns the context's error then
DeadlineExceeded ==
    [addr |-> "", err |-> "context deadline exceeded", waited |-> ResolveDeadline]

\* what s.Resolver.Resolve(ctx, metadata) may return and after how many
\* seconds: the answer of the memory resolver, at once, or the deadline error
\* of a resolver that blocked
ResolverResults(md) ==
    { [addr |-> MemoryResolve(md).addr, err |-> MemoryResolve(md).err, waited |-> 0],
      DeadlineExceeded }

\* variant without the error check of lines 134-137
Resolve_NoErrCheck(c) ==
    /\ proc = "running"
    /\ pc[c] = "hsReturned"
    /\ hsErr[c] = ""
    /\ resolveCalls' = [resolveCalls EXCEPT ![c] = @ + 1]
    /\ \E r \in ResolverResults(metadata[c]) :
         /\ backendAddr' = [backendAddr EXCEPT ![c] = r.addr]
         /\ resolveWait' = [resolveWait EXCEPT ![c] = r.waited]
    /\ pc' = [pc EXCEPT ![c] = "dial"]
    /\ UNCHANGED <<proc, serve, accepted, cin, cclose, layer, frames, cout, clientConn,
                   metadata, hsErr, csock, bsock, dialCalls, bin, replayed, bout, bclose,
                   up, down, upSrc, rt>>

\* handleConnection, lines 128-137: Resolve under the 5 s context
Resolve(c) ==
    /\ proc = "running"
    /\ pc[c] = "hsReturned"
    /\ hsErr[c] = ""
    /\ resolveCalls' = [resolveCalls EXCEPT ![c] = @ + 1]
    /\ \E r \in ResolverResults(metadata[c]) :
         /\ backendAddr' = [backendAddr EXCEPT ![c] = r.addr]
         /\ resolveWait' = [resolveWait EXCEPT ![c] = r.waited]
         /\ IF r.err = ""
            THEN /\ pc' = [pc EXCEPT ![c] = "dial"]
                 /\ UNCHANGED <<csock, bsock>>
            ELSE /\ pc' = [pc EXCEPT ![c] = "done"]
                 /\ RunDeferred(c, FALSE)
    /\ UNCHANGED <<proc, serve, accepted, cin, cclose, layer, frames, cout, clientConn,
                   metadata, hsErr, dialCalls, bin, replayed, bout, bclose, up, down,
                   upSrc, rt>>

\* handleConnection, lines 139-145: net.Dial("tcp", backendAddr)
Dial(c) ==
    /\ proc = "running"
    /\ pc[c] = "dial"
    /\ dialCalls' = [dialCalls EXCEPT ![c] = @ + 1]
    /\ \E ok \in BOOLEAN :
         IF ok
         THEN /\ pc' = [pc EXCEPT ![c] = "replay"]
              /\ bsock' = [bsock EXCEPT ![c] = "open"]
              /\ bout' = [bout EXCEPT ![c] = <<82>>]
              /\ UNCHANGED csock
         ELSE /\ pc' = [pc EXCEPT ![c] = "done"]
              /\ RunDeferred(c, FALSE)
              /\ UNCHANGED bout
    /\ UNCHANGED <<proc, serve, accepted, cin, cclose, layer, frames, cout, clientConn,
                   metadata, hsErr, resolveCalls, backendAddr, bin, replayed, bclose,
                   up, down, upSrc, resolveWait, rt>>

\* handleConnection, lines 147-167: write metadata["_raw_startup_message"] to
\* the backend when the key is there, then start the two copy goroutines
Replay(c) ==
    /\ proc = "running"
    /\ pc[c] = "replay"
    /\ \E written \in BOOLEAN :
         IF Has(metadata[c], kRawStartupMessage) /\ ~written
         THEN /\ pc' = [pc EXCEPT ![c] = "done"]
              /\ RunDeferred(c, TRUE)
              /\ UNCHANGED <<bin, replayed, up, down>>
         ELSE /\ pc' = [pc EXCEPT ![c] = "relay"]
              /\ IF Has(metadata[c], kRawStartupMessage)
                 THEN /\ bin' = [bin EXCEPT ![c] = @ \o metadata[c][kRawStartupMessage]]
                      /\ replayed' = [replayed EXCEPT ![c] = metadata[c][kRawStartupMessage]]
                 ELSE UNCHANGED <<bin, replayed>>
              /\ up' = [up EXCEPT ![c] = "run"]
              /\ down' = [down EXCEPT ![c] = "run"]
              /\ UNCHANGED <<csock, bsock>>
    /\ UNCHANGED <<proc, serve, accepted, cin, cclose, layer, frames, cout, clientConn,
                   metadata, hsErr, resolveCalls, backendAddr, dialCalls, bout, bclose,
                   upSrc, resolveWait, rt>>

\* variant that closes the backend conn when the copy ends
CopyUp_CloseBackend(c) ==
    /\ proc = "running"
    /\ pc[c] = "relay"
    /\ up[c] = "run"
    /\ upSrc' = [upSrc EXCEPT ![c] = clientConn[c]]
    /\ IF cin[c] # <<>>
       THEN \E written \in BOOLEAN :
              /\ cin' = [cin EXCEPT ![c] = <<>>]
              /\ IF written
                 THEN /\ bin' = [bin EXCEPT ![c] = @ \o cin[c]]
                      /\ UNCHANGED <<up, bsock>>
                 ELSE /\ up' = [up EXCEPT ![c] = "done"]
                      /\ bsock' = [bsock EXCEPT ![c] = "closed"]
                      /\ UNCHANGED bin
       ELSE /\ cclose[c]
            /\ up' = [up EXCEPT ![c] = "done"]
            /\ bsock' = [bsock EXCEPT ![c] = "closed"]
            /\ UNCHANGED <<cin, bin>>
    /\ UNCHANGED <<proc, serve, accepted, pc, cclose, layer, frames, cout, clientConn,
                   metadata, hsErr, csock, resolveCalls, backendAddr, dialCalls,
                   replayed, bout, bclose, down, resolveWait, rt>>

\* lines 159-162: io.Copy(backendConn, clientConn)
CopyUp(c) ==
    /\ proc = "running"
    /\ pc[c] = "relay"
    /\ up[c] = "run"
    /\ upSrc' = [upSrc EXCEPT ![c] = clientConn[c]]
    /\ IF cin[c] # <<>>
       THEN \E written \in BOOLEAN :
              /\ cin' = [cin EXCEPT ![c] = <<>>]
              /\ IF written
                 THEN /\ bin' = [bin EXCEPT ![c] = @ \o cin[c]]
                      /\ UNCHANGED up
                 ELSE /\ up' = [up EXCEPT ![c] = "done"]
                      /\ UNCHANGED bin
       ELSE /\ cclose[c]
            /\ up' = [up EXCEPT ![c] = "done"]
            /\ UNCHANGED <<cin, bin>>
    /\ UNCHANGED <<proc, serve, accepted, pc, cclose, layer, frames, cout, clientConn,
                   metadata, hsErr, csock, bsock, resolveCalls, backendAddr, dialCalls,
                   replayed, bout, bclose, down, resolveWait, rt>>

\* variant that writes to the conn accepted by Serve instead of the conn
\* Handshake returned
CopyDown_OriginalConn(c) ==
    /\ proc = "running"
    /\ pc[c] = "relay"
    /\ down[c] = "run"
    /\ IF bout[c] # <<>>
       THEN \E written \in BOOLEAN :
              /\ bout' = [bout EXCEPT ![c] = <<>>]
              /\ IF written
                 THEN /\ cout' = [cout EXCEPT ![c] = Append(@,
                              [layer |-> 0, from |-> "relay",
                               frame |-> 0, data |-> bout[c]])]
                      /\ UNCHANGED down
                 ELSE /\ down' = [down EXCEPT ![c] = "done"]
                      /\ UNCHANGED cout
       ELSE /\ bclose[c]
            /\ down' = [down EXCEPT ![c] = "done"]
            /\ UNCHANGED <<bout, cout>>
    /\ UNCHANGED <<proc, serve, accepted, pc, cin, cclose, layer, frames, clientConn,
                   metadata, hsErr, csock, bsock, resolveCalls, backendAddr, dialCalls,
                   bin, replayed, bclose, up, upSrc, resolveWait, rt>>

\* lines 164-167: io.Copy(clientConn, backendConn)
CopyDown(c) ==
    /\ proc = "running"
    /\ pc[c] = "relay"
    /\ down[c] = "run"
    /\ IF bout[c] # <<>>
       THEN \E written \in BOOLEAN :
              /\ bout' = [bout EXCEPT ![c] = <<>>]
              /\ IF written
                 THEN /\ cout' = [cout EXCEPT ![c] = Append(@,
                              [layer |-> clientConn[c], from |-> "relay",
                               frame |-> 0, data |-> bout[c]])]
                      /\ UNCHANGED down
                 ELSE /\ down' = [down EXCEPT ![c] = "done"]
                      /\ UNCHANGED cout
       ELSE /\ bclose[c]
            /\ down' = [down EXCEPT ![c] = "done"]
            /\ UNCHANGED <<bout, cout>>
    /\ UNCHANGED <<proc, serve, accepted, pc, cin, cclose, layer, frames, clientConn,
                   metadata, hsErr, csock, bsock, resolveCalls, backendAddr, dialCalls,
                   bin, replayed, bclose, up, upSrc, resolveWait, rt>>

\* variant that waits for one copy only (wg.Add(1))
RelayDone_WaitOne(c) ==
    /\ proc = "running"
    /\ pc[c] = "relay"
    /\ up[c] = "done" \/ down[c] = "done"
    /\ pc' = [pc EXCEPT ![c] = "done"]
    /\ RunDeferred(c, TRUE)
    /\ UNCHANGED <<proc, serve, accepted, cin, cclose, layer, frames, cout, clientConn,
                   metadata, hsErr, resolveCalls, backendAddr, dialCalls, bin,
                   replayed, bout, bclose, up, down, upSrc, resolveWait, rt>>

\* lines 169-170: wg.Wait() returns once both copies are done; the worker returns
RelayDone(c) ==
    /\ proc = "running"
    /\ pc[c] = "relay"
    /\ up[c] = "done"
    /\ down[c] = "done"
    /\ pc' = [pc EXCEPT ![c] = "done"]
    /\ RunDeferred(c, TRUE)
    /\ UNCHANGED <<proc, serve, accepted, cin, cclose, layer, frames, cout, clientConn,
                   metadata, hsErr, resolveCalls, backendAddr, dialCalls, bin,
                   replayed, bout, bclose, up, down, upSrc, resolveWait, rt>>

handleConnection(c) ==
    \/ HsFrame(c)
    \/ HsTLS(c)
    \/ HandshakeError(c)
    \/ Resolve(c)
    \/ Dial(c)
    \/ Replay(c)
    \/ CopyUp(c)
    \/ CopyDown(c)
    \/ RelayDone(c)

Init ==
    /\ proc = "running"
    /\ serve = "accepting"
    /\ accepted = 0
    /\ IdleConns
    /\ rt = RtNone

Next ==
    \/ \E c \in Conns : Accept(c)
    \/ AcceptError
    \/ \E c \in Conns : handleConnection(c)

Spec == Init /\ [][Next]_vars

\* ========================================================================
\* Codec specification: Handshake on one accepted connection, over every
\* stream of CodecStreams, and what handleConnection does with its result up
\* to the resolver call; beside it, the re-encoding of the decoded frame with
\* rebuildStartupMessage and the decoding of the result
\* ========================================================================
CodecInit ==
    /\ proc = "running"
    /\ serve = "accepting"
    /\ accepted = 1
    /\ pc = [c \in Conns |-> IF c = 1 THEN "hsRead" ELSE "idle"]
    /\ \E stream \in CodecStreams : cin = [c \in Conns |-> IF c = 1 THEN stream ELSE <<>>]
    /\ cclose = [c \in Conns |-> c = 1]
    /\ layer = [c \in Conns |-> 0]
    /\ frames = [c \in Conns |-> <<>>]
    /\ cout = [c \in Conns |-> <<>>]
    /\ clientConn = [c \in Conns |-> IF c = 1 THEN 0 ELSE NilConn]
    /\ metadata = [c \in Conns |-> EmptyMap]
    /\ hsErr = [c \in Conns |-> ""]
    /\ csock = [c \in Conns |-> IF c = 1 THEN "open" ELSE "none"]
    /\ bsock = [c \in Conns |-> "none"]
    /\ resolveCalls = [c \in Conns |-> 0]
    /\ backendAddr = [c \in Conns |-> ""]
    /\ dialCalls = [c \in Conns |-> 0]
    /\ bin = [c \in Conns |-> <<>>]
    /\ replayed = [c \in Conns |-> <<>>]
    /\ bout = [c \in Conns |-> <<>>]
    /\ bclose = [c \in Conns |-> FALSE]
    /\ up = [c \in Conns |-> "none"]
    /\ down = [c \in Conns |-> "none"]
    /\ upSrc = [c \in Conns |-> NilConn]
    /\ resolveWait = [c \in Conns |-> 0]
    /\ rt = RtNone

\* the startup frame a successful Handshake decoded last
Accepted(c) == pc[c] = "hsReturned" /\ hsErr[c] = ""

LastPayload(c) == frames[c][Len(frames[c])].payload

\* rebuildStartupMessage applied to the decoded version and parameters
CodecEncode ==
    /\ Accepted(1)
    /\ rt.kind = "none"
    /\ LET v == Uint32(SubSeq(LastPayload(1), 1, 4))
           P == ParseParams(LastPayload(1)).params
       IN  \E order \in Orders(P) :
             rt' = [RtNone EXCEPT !.kind = "encoded", !.version = v, !.params = P,
                                  !.bytes = rebuildStartupMessage(v, P, order)]
    /\ UNCHANGED <<proc, serve, accepted, connVars>>

\* the decoder of Handshake (lines 60-132) applied to the re-encoded bytes
CodecDecode ==
    /\ rt.kind = "encoded"
    /\ LET f == ReadFrame(rt.bytes) IN
       IF f.err # "" \/ IsSSLRequest(f.payload) \/ Len(f.payload) < 4
       THEN rt' = [rt EXCEPT !.kind = "decoded", !.err = "rejected"]
       ELSE LET d == ParseParams(f.payload) IN
            rt' = [rt EXCEPT !.kind = "decoded", !.err = d.err,
                             !.dversion = Uint32(SubSeq(f.payload, 1, 4)),
                             !.dparams = d.params]
    /\ UNCHANGED <<proc, serve, accepted, connVars>>

CodecNext ==
    \/ \E c \in Conns : HsFrame(c)
    \/ \E c \in Conns : HsTLS(c)
    \/ \E c \in Conns : HandshakeError(c)
    \/ \E c \in Conns : Resolve(c)
    \/ CodecEncode
    \/ CodecDecode

SpecCodec == CodecInit /\ [][CodecNext]_vars

\* ========================================================================
\* Error response specification: sendErrorResponse called with one
\* ErrorResponse out of a set of severities, codes and messages (texts
\* without NUL bytes, as PostgreSQL strings are)
\* ========================================================================
Severities ==
    { <<70, 65, 84, 65, 76>>,                 \* FATAL
      <<69, 82, 82, 79, 82>>,                 \* ERROR
      <<80, 65, 78, 73, 67>>,                 \* PANIC
      <<83>>,                                 \* S
      <<>> }

Codes ==
    { <<48, 56, 48, 48, 54>>,                 \* 08006
      <<88, 88, 48, 48, 48>>,                 \* XX000
      <<67>>,                                 \* C
      <<48>>,                                 \* 0
      <<>> }

Messages ==
    { TLSFailure.Message,
      <<83, 67, 77>>,                         \* SCM
      <<77>>,                                 \* M
      <<97, 32, 98>>,                         \* a b
      <<>> }

ErrorResponses ==
    { [Severity |-> sev, Code |-> code, Message |-> msg] :
          sev \in Severities, code \in Codes, msg \in Messages }

\* the argument of the call, kept by its field codes 'S', 'C', 'M'
ErrorInit ==
    /\ proc = "running"
    /\ serve = "accepting"
    /\ accepted = 0
    /\ IdleConns
    /\ \E e \in ErrorResponses :
         rt = [RtNone EXCEPT !.kind = "errResp",
                             !.params = (<<83>> :> e.Severity) @@ (<<67>> :> e.Code)
                                            @@ (<<77>> :> e.Message)]

\* sendErrorResponse, lines 32-57: builds msg, writes it to conn and returns
\* the error of the write
EmitErrorResponse ==
    /\ rt.kind = "errResp"
    /\ \E written \in BOOLEAN :
         rt' = [rt EXCEPT !.kind = "sent",
                          !.bytes = sendErrorResponse([Severity |-> rt.params[<<83>>],
                                                       Code     |-> rt.params[<<67>>],
                                                       Message  |-> rt.params[<<77>>]]),
                          !.err = IF written THEN "" ELSE "write failed"]
    /\ UNCHANGED <<proc, serve, accepted, connVars>>

ErrorNext == EmitErrorResponse

SpecError == ErrorInit /\ [][ErrorNext]_vars

\* ========================================================================
\* Properties
\* ========================================================================
\* the 4-byte big-endian length at the front equals the length of the whole
WellFramed(b) == Len(b) >= 4 /\ Uint32(SubSeq(b, 1, 4)) = Len(b)

\* b begins with a complete startup frame: length, version, pairs
StartsWithFrame(b) ==
    /\ Len(b) >= 8
    /\ Uint32(SubSeq(b, 1, 4)) >= 8
    /\ Uint32(SubSeq(b, 1, 4)) <= Len(b)

HasSentinel(payload) == Len(payload) >= 4 /\ SubSeq(payload, 1, 4) = <<4, 210, 22, 47>>

\* the parameters the client sent in the accepted startup frame
ClientParams(c) == ParseParams(LastPayload(c)).params

\* the parameters of the frame stored for replay
ReplayParams(c) ==
    ParseParams(Tail0(metadata[c][kRawStartupMessage], 4)).params

\* the replay frame carries another user than the client's frame
UserRewritten(c) ==
    /\ Has(metadata[c], kRawStartupMessage)
    /\ Has(ClientParams(c), kUser)
    /\ \/ ~Has(ReplayParams(c), kUser)
       \/ ReplayParams(c)[kUser] # ClientParams(c)[kUser]

\* the worker ended on a failure of its connection
Failed(c) == hsErr[c] # "" \/ (pc[c] = "done" /\ up[c] # "done")

\* C1: a failure while handling one connection (handshake, resolve, dial or
\* replay-write error) never terminates the proxy process, and so never takes
\* the accept loop or the other connections down with it.
C1_FailureConfined ==
    \A c \in Conns : Failed(c) => proc # "crashed"

\* C2: once the worker of a connection has ended, on any path, the client
\* socket is closed, and the backend connection is closed if one was dialed.
C2_ClosedOnEveryExit ==
    \A c \in Conns :
        pc[c] \in {"done", "panicked"} =>
            /\ csock[c] = "closed"
            /\ bsock[c] \in {"none", "closed"}

C2_Witness ==
    \E c \in Conns :
        /\ pc[c] = "done"
        /\ up[c] = "done"
        /\ down[c] = "done"
        /\ csock[c] = "closed"
        /\ bsock[c] = "closed"

\* C3: for a connection whose handshake succeeded and whose backend was
\* dialed, the bytes written to the backend begin with a complete startup
\* frame, written by the replay step before any relayed client byte.
C3_StartupFrameFirst ==
    \A c \in Conns :
        bin[c] # <<>> =>
            /\ replayed[c] # <<>>
            /\ StartsWithFrame(bin[c])

\* C4: Resolve is called only after the handshake of the connection returned
\* success, and a dial is attempted only after Resolve returned an address
\* without error; a failed handshake causes no resolver call and a failed
\* resolution no backend connection.
C4_HandshakeResolveDialOrder ==
    \A c \in Conns :
        /\ resolveCalls[c] > 0 =>
              /\ hsErr[c] = ""
              /\ pc[c] \notin {"idle", "hsRead", "hsTLS", "hsReturned", "panicked"}
              /\ Len(frames[c]) > 0
              /\ frames[c][Len(frames[c])].class = "startup"
        /\ dialCalls[c] > 0 => resolveCalls[c] > 0 /\ backendAddr[c] # ""
        /\ bsock[c] # "none" => dialCalls[c] > 0
        /\ hsErr[c] # "" => resolveCalls[c] = 0 /\ dialCalls[c] = 0
        /\ resolveCalls[c] <= 1 /\ dialCalls[c] <= 1

C4_Witness ==
    \E c, d \in Conns :
        /\ dialCalls[c] = 1 /\ backendAddr[c] # ""
        /\ resolveCalls[d] = 1 /\ backendAddr[d] = "" /\ dialCalls[d] = 0 /\ pc[d] = "done"

\* C5: when the handshake did not modify user, the bytes stored under
\* _raw_startup_message are the header and the payload read from the client.
C5_VerbatimReplay ==
    \A c \in Conns :
        (Accepted(c) /\ Has(metadata[c], kRawStartupMessage) /\ ~UserRewritten(c)) =>
            metadata[c][kRawStartupMessage]
                = frames[c][Len(frames[c])].header \o LastPayload(c)

\* C6: whenever user is rewritten, the rebuilt frame's length field equals its
\* length and none of deployment_id, pooled, username, _raw_startup_message is
\* a parameter of the rebuilt frame.
C6_RebuiltFrameClean ==
    \A c \in Conns :
        (Accepted(c) /\ UserRewritten(c)) =>
            /\ WellFramed(metadata[c][kRawStartupMessage])
            /\ DOMAIN ReplayParams(c)
                 \cap {kDeploymentId, kPooled, kUsername, kRawStartupMessage} = {}

\* C7: in the metadata of a successful handshake, the value under
\* _raw_startup_message, when present, begins with its own length.
C7_ReplayKeyWellFramed ==
    \A c \in Conns :
        (Accepted(c) /\ Has(metadata[c], kRawStartupMessage)) =>
            WellFramed(metadata[c][kRawStartupMessage])

\* C8: re-encoding the version and parameters of an accepted startup frame
\* with rebuildStartupMessage, in any key order, and decoding the result gives
\* back the same version and the same parameters.
C8_RoundTrip ==
    rt.kind = "decoded" =>
        /\ rt.err = ""
        /\ rt.dversion = rt.version
        /\ rt.dparams = rt.params

C8_Witness ==
    /\ rt.kind = "decoded"
    /\ Cardinality(DOMAIN rt.params) >= 2
    /\ rt.dparams = rt.params
    /\ \E k \in DOMAIN rt.params : rt.params[k] = <<>>

\* C9: a received frame is taken for an SSLRequest exactly when its payload
\* begins with 04 D2 16 2F, whatever its length; the handshake writes to the
\* client ('S' included) only in answer to such a frame.
C9_SSLRequestClassification ==
    \A c \in Conns :
        /\ \A i \in 1..Len(frames[c]) :
              frames[c][i].class = "ssl" <=> HasSentinel(frames[c][i].payload)
        /\ \A w \in 1..Len(cout[c]) :
              cout[c][w].from = "handshake" =>
                  /\ cout[c][w].frame \in 1..Len(frames[c])
                  /\ HasSentinel(frames[c][cout[c][w].frame].payload)

C9_Witness ==
    \E c \in Conns :
        /\ Len(frames[c]) >= 1
        /\ frames[c][1].class = "ssl"
        /\ Len(frames[c][1].payload) > 4
        /\ Len(cout[c]) >= 1
        /\ cout[c][1].data = <<83>>

\* C10: when the accepted startup frame had a user parameter, the metadata has
\* pooled, and its value is "true" or "false".
C10_PooledTrueOrFalse ==
    \A c \in Conns :
        (Accepted(c) /\ Has(ClientParams(c), kUser)) =>
            /\ Has(metadata[c], kPooled)
            /\ metadata[c][kPooled] \in {sTrue, sFalse}

C10_Witness ==
    \E c \in Conns :
        /\ Accepted(c)
        /\ Has(ClientParams(c), kUser)
        /\ Has(ClientParams(c), kPooled)
        /\ ClientParams(c)[kPooled] \notin {sTrue, sFalse}
        /\ metadata[c][kPooled] = sFalse

\* ------------------------------------------------------------------------
\* The tenant format of a user string, stated on the string itself
\* ------------------------------------------------------------------------
\* index of the last occurrence of byte d in s, 0 when there is none
LastIndexByte(s, d) ==
    IF \E i \in 1..Len(s) : s[i] = d
    THEN CHOOSE i \in 1..Len(s) : s[i] = d /\ \A j \in (i + 1)..Len(s) : s[j] # d
    ELSE 0

BeforeLastDot(u) == SubSeq(u, 1, LastIndexByte(u, DotByte) - 1)

AfterLastDot(u) == Tail0(u, LastIndexByte(u, DotByte))

\* u ends in the segment "pool"
EndsInPool(u) == LastIndexByte(u, DotByte) > 0 /\ AfterLastDot(u) = sPool

\* u has a separator and names a deployment: its last segment is not pool, or
\* it has at least three segments and ends in pool
TenantFormat(u) ==
    /\ LastIndexByte(u, DotByte) > 0
    /\ \/ AfterLastDot(u) # sPool
       \/ LastIndexByte(BeforeLastDot(u), DotByte) > 0

\* the keys the tenant parser is to derive from user string u, and their values
Derived(u) ==
    LET base == [k \in {kPooled} |-> IF EndsInPool(u) THEN sTrue ELSE sFalse]
        stem == IF EndsInPool(u) THEN BeforeLastDot(u) ELSE u
    IN  IF TenantFormat(u)
        THEN MapSet(MapSet(base, kDeploymentId, AfterLastDot(stem)),
                    kUsername, BeforeLastDot(stem))
        ELSE base

DerivedKeys == {kPooled, kDeploymentId, kUsername}

\* C11: the metadata of a successful handshake has the key deployment_id if
\* and only if the client's user parameter has a '.' separator and matches the
\* tenant format; in every other case there is no deployment_id key.
C11_DeploymentIdIffTenantFormat ==
    \A c \in Conns :
        Accepted(c) =>
            (Has(metadata[c], kDeploymentId)
                <=> (Has(ClientParams(c), kUser) /\ TenantFormat(ClientParams(c)[kUser])))

\* C12: for every user string the derived keys are those of the split-on-'.'
\* algorithm: pooled always; deployment_id and username exactly when the
\* string matches the tenant format, with the segment before an ending pool
\* (or the last segment) as deployment_id and the leading segments joined by
\* '.' as username.  A key that is not derived is left as the client sent it.
C12_DerivedKeys ==
    \A c \in Conns :
        (Accepted(c) /\ Has(ClientParams(c), kUser)) =>
            LET d == Derived(ClientParams(c)[kUser]) IN
            \A k \in DerivedKeys :
                IF Has(d, k)
                THEN Has(metadata[c], k) /\ metadata[c][k] = d[k]
                ELSE /\ Has(metadata[c], k) <=> Has(ClientParams(c), k)
                     /\ Has(metadata[c], k) => metadata[c][k] = ClientParams(c)[k]

\* user=a.b.c.dep42.pool has given username a.b.c, deployment_id dep42, pooled true
C12_Witness ==
    \E c \in Conns :
        /\ Accepted(c)
        /\ Has(ClientParams(c), kUser)
        /\ ClientParams(c)[kUser]
             = <<97, 46, 98, 46, 99, 46, 100, 101, 112, 52, 50, 46, 112, 111, 111, 108>>
        /\ metadata[c][kUsername] = <<97, 46, 98, 46, 99>>
        /\ metadata[c][kDeploymentId] = <<100, 101, 112, 52, 50>>
        /\ metadata[c][kPooled] = sTrue

\* the metadata Handshake derives from a startup frame, whatever conn it came from
StartupMetadata(header, payload) ==
    { HandshakeStartup(header, payload, order).metadata : order \in RebuildOrders(payload) }

\* C13: when the first frame of a connection is an SSLRequest, the first write
\* of the proxy is the single byte 'S' on the plain conn, made before the TLS
\* handshake starts; no answer to an SSLRequest is 'N'; every other frame is
\* read from a TLS-wrapped conn only; and the metadata of a successful
\* handshake is what the startup branch derives from that frame.
C13_SSLRequestThenTLS ==
    \A c \in Conns :
        (Len(frames[c]) >= 1 /\ frames[c][1].class = "ssl") =>
            /\ (pc[c] = "hsTLS" \/ layer[c] >= 1) =>
                  /\ Len(cout[c]) >= 1
                  /\ cout[c][1] = [layer |-> 0, from |-> "handshake", frame |-> 1,
                                   data |-> <<83>>]
            /\ pc[c] = "hsTLS" =>
                  /\ cout[c][Len(cout[c])]
                        = [layer |-> layer[c], from |-> "handshake",
                           frame |-> Len(frames[c]), data |-> <<83>>]
                  /\ \A w \in 1..(Len(cout[c]) - 1) : cout[c][w].frame # Len(frames[c])
            /\ \A w \in 1..Len(cout[c]) : cout[c][w].data # <<78>>
            /\ \A i \in 2..Len(frames[c]) : frames[c][i].layer >= 1
            /\ \A i \in 1..Len(frames[c]) :
                  frames[c][i].class # "ssl" => frames[c][i].layer >= 1
            /\ Accepted(c) =>
                  /\ clientConn[c] >= 1
                  /\ frames[c][Len(frames[c])].layer = clientConn[c]
                  /\ metadata[c] \in StartupMetadata(frames[c][Len(frames[c])].header,
                                                     LastPayload(c))

C13_Witness ==
    \E c \in Conns :
        /\ Accepted(c)
        /\ Len(frames[c]) = 2
        /\ frames[c][1].class = "ssl"
        /\ frames[c][2].class = "startup"
        /\ frames[c][2].layer = 1
        /\ cout[c] = << [layer |-> 0, from |-> "handshake", frame |-> 1, data |-> <<83>>] >>
        /\ Has(metadata[c], kDeploymentId)
        /\ Has(metadata[c], kRawStartupMessage)

\* b is a PostgreSQL ErrorResponse whose first two fields are severity FATAL
\* and code 08006: 'E', the length of what follows the type byte, the fields,
\* each a type byte and a NUL-terminated string, and the final NUL
IsFatal08006(b) ==
    /\ Len(b) >= 21
    /\ b[1] = 69
    /\ Uint32(SubSeq(b, 2, 5)) = Len(b) - 1
    /\ SubSeq(b, 6, 12) = <<83, 70, 65, 84, 65, 76, 0>>
    /\ SubSeq(b, 13, 19) = <<67, 48, 56, 48, 48, 54, 0>>
    /\ b[20] = 77
    /\ b[Len(b)] = 0
    /\ b[Len(b) - 1] = 0
    /\ \A i \in 21..(Len(b) - 2) : b[i] # 0

TLSFailed(c) == hsErr[c] = "tls handshake failed"

\* C14: when the TLS handshake after an accepted SSLRequest has failed, the
\* proxy has written 'S' and after it, on the same conn, at most one more
\* message, an ErrorResponse FATAL/08006; the handshake has returned an error;
\* no resolver call and no dial is made; and when the worker has ended the
\* client socket is closed.  All of it holds whether or not the ErrorResponse
\* could be written.
C14_TLSFailureResponse ==
    \A c \in Conns :
        TLSFailed(c) =>
            LET n == Len(cout[c])
                f == Len(frames[c])
                S == [layer |-> frames[c][f].layer, from |-> "handshake",
                      frame |-> f, data |-> <<83>>]
            IN  /\ frames[c][f].class = "ssl"
                /\ n >= 1
                /\ \/ cout[c][n] = S
                   \/ /\ n >= 2
                      /\ cout[c][n - 1] = S
                      /\ cout[c][n].layer = S.layer
                      /\ cout[c][n].from = "handshake"
                      /\ IsFatal08006(cout[c][n].data)
                /\ clientConn[c] = NilConn
                /\ metadata[c] = EmptyMap
                /\ resolveCalls[c] = 0
                /\ dialCalls[c] = 0
                /\ bsock[c] = "none"
                /\ pc[c] \in {"hsReturned", "done", "panicked"}
                /\ pc[c] # "hsReturned" => csock[c] = "closed"

\* one connection whose ErrorResponse was written and whose worker has ended,
\* and another whose ErrorResponse could not be written
C14_Witness ==
    \E c, d \in Conns :
        /\ TLSFailed(c)
        /\ Len(cout[c]) = 2
        /\ cout[c][1].data = <<83>>
        /\ cout[c][2].layer = 0
        /\ IsFatal08006(cout[c][2].data)
        /\ pc[c] # "hsReturned"
        /\ csock[c] = "closed"
        /\ TLSFailed(d)
        /\ Len(cout[d]) = 1

\* the recommended ceiling of a frame's declared length: 64 KiB
FrameCeiling == 64 * 1024

\* C15: a frame whose declared length exceeds the ceiling is rejected when its
\* length is validated, before a buffer of the declared size is made and
\* before any byte of its payload is read; the handshake fails.
C15_FrameTooLargeRejected ==
    \A c \in Conns :
        \A i \in 1..Len(frames[c]) :
            Int32(Uint32(frames[c][i].header)) > FrameCeiling =>
                /\ frames[c][i].class = "invalid"
                /\ frames[c][i].payload = <<>>
                /\ hsErr[c] # ""

\* ------------------------------------------------------------------------
\* The strings of a startup payload, stated on the bytes after the version
\* ------------------------------------------------------------------------
\* the pieces of b between its NUL bytes; the last piece is what follows the
\* last NUL (all of b when it has none)
RECURSIVE Fields(_)
Fields(b) ==
    LET i == IndexByte(b, 0) IN
    IF i = 0 THEN <<b>> ELSE <<SubSeq(b, 1, i - 1)>> \o Fields(Tail0(b, i))

\* the NUL-terminated strings of the payload, keys at the odd places
Strings(payload) ==
    LET f == Fields(SubSeq(payload, 5, Len(payload))) IN SubSeq(f, 1, Len(f) - 1)

\* what follows the last NUL-terminated string
Remainder(payload) ==
    LET f == Fields(SubSeq(payload, 5, Len(payload))) IN f[Len(f)]

\* an empty key ends the parameters before the input runs out
Terminated(payload) ==
    \E i \in 1..Len(Strings(payload)) : i % 2 = 1 /\ Strings(payload)[i] = <<>>

\* the payload ends inside a key
KeyCutShort(payload) ==
    /\ ~Terminated(payload)
    /\ Len(Strings(payload)) % 2 = 0
    /\ Remainder(payload) # <<>>

\* the payload ends inside or before the value of a non-empty key
ValueCutShort(payload) ==
    /\ ~Terminated(payload)
    /\ Len(Strings(payload)) % 2 = 1

\* frame i of connection c went to the startup branch of Handshake
StartupBranch(c, i) ==
    /\ frames[c][i].class \in {"startup", "rejected"}
    /\ Len(frames[c][i].payload) >= 4

\* frame i made the handshake fail as malformed; nothing was resolved and the
\* worker, once ended, has closed the client socket
MalformedDropped(c, i) ==
    /\ frames[c][i].class = "rejected"
    /\ i = Len(frames[c])
    /\ hsErr[c] = "malformed startup message"
    /\ metadata[c] = EmptyMap
    /\ resolveCalls[c] = 0
    /\ pc[c] \in {"hsReturned", "done", "panicked"}
    /\ pc[c] # "hsReturned" => csock[c] = "closed"

\* C16 as stated: a startup payload with a key or a value that is not
\* NUL-terminated makes the handshake fail with a malformed-startup error,
\* without resolver call and without metadata.
C16_UnterminatedRejected ==
    \A c \in Conns :
        \A i \in 1..Len(frames[c]) :
            (StartupBranch(c, i)
                /\ (KeyCutShort(frames[c][i].payload) \/ ValueCutShort(frames[c][i].payload)))
            => MalformedDropped(c, i)

\* C16 amended: the handshake fails as malformed exactly when the payload ends
\* inside or before the value of a non-empty key; a payload that ends inside a
\* key is accepted with the pairs read before that key.
C16_ValueCutShortRejected ==
    \A c \in Conns :
        \A i \in 1..Len(frames[c]) :
            StartupBranch(c, i) =>
                /\ ValueCutShort(frames[c][i].payload) => MalformedDropped(c, i)
                /\ frames[c][i].class = "rejected" => ValueCutShort(frames[c][i].payload)
                /\ (KeyCutShort(frames[c][i].payload) /\ pc[c] = "hsReturned") =>
                      /\ hsErr[c] = ""
                      /\ \A k \in DOMAIN ClientParams(c) :
                            \E j \in 1..(Len(Strings(frames[c][i].payload)) \div 2) :
                                /\ Strings(frames[c][i].payload)[2 * j - 1] = k
                                /\ \/ Strings(frames[c][i].payload)[2 * j] = ClientParams(c)[k]
                                   \/ \E m \in (j + 1)..(Len(Strings(frames[c][i].payload)) \div 2) :
                                        Strings(frames[c][i].payload)[2 * m - 1] = k

\* a frame whose last value is cut short was rejected and the worker has ended
C16_Witness ==
    \E c \in Conns :
        /\ Len(frames[c]) = 1
        /\ StartupBranch(c, 1)
        /\ ValueCutShort(frames[c][1].payload)
        /\ Remainder(frames[c][1].payload) # <<>>
        /\ Len(Strings(frames[c][1].payload)) >= 3
        /\ MalformedDropped(c, 1)
        /\ pc[c] = "panicked"

\* a copy task of connection c is running
Copying(c) == proc = "running" /\ (up[c] = "run" \/ down[c] = "run")

\* exactly one of the two copy tasks of connection c has completed
OneDirectionDone(c) ==
    /\ proc = "running"
    /\ pc[c] = "relay"
    /\ (up[c] = "done") # (down[c] = "done")

\* C17: the two copy tasks are started together, after the replay write; while
\* one of them runs the worker has not returned and neither the client nor the
\* backend socket is closed; a worker that relayed has returned only with
\* both tasks completed.
C17_WaitForBothCopies ==
    \A c \in Conns :
        /\ (up[c] = "none") <=> (down[c] = "none")
        /\ up[c] # "none" =>
              /\ pc[c] \in {"relay", "done"}
              /\ Has(metadata[c], kRawStartupMessage)
                    => replayed[c] = metadata[c][kRawStartupMessage]
        /\ Copying(c) =>
              /\ pc[c] = "relay"
              /\ csock[c] = "open"
              /\ bsock[c] = "open"
        /\ (pc[c] = "done" /\ up[c] # "none") => (up[c] = "done" /\ down[c] = "done")

\* the backend-to-client copy has completed, the other still runs, nothing is closed
C17_Witness ==
    \E c \in Conns :
        /\ proc = "running"
        /\ pc[c] = "relay"
        /\ down[c] = "done"
        /\ up[c] = "run"
        /\ replayed[c] # <<>>
        /\ csock[c] = "open"
        /\ bsock[c] = "open"

\* C18 as stated: once one copy direction has completed the worker is not left
\* waiting on a peer that stays idle and never closes: it can take a step
\* towards its return.
C18_OtherDirectionUnblocked ==
    \A c \in Conns : OneDirectionDone(c) => ENABLED handleConnection(c)

\* C18 amended: after one copy direction has completed the worker leaves both
\* sockets open and waits for the other direction; it can go on exactly when
\* the peer of that direction still delivers bytes or closes its side.
C18_WaitsForPeerClose ==
    \A c \in Conns :
        OneDirectionDone(c) =>
            /\ csock[c] = "open"
            /\ bsock[c] = "open"
            /\ ENABLED handleConnection(c)
                  <=> IF up[c] = "done" THEN bout[c] # <<>> \/ bclose[c]
                                        ELSE cin[c] # <<>> \/ cclose[c]

\* the client has closed, the backend stays idle and open: the worker is held
C18_Witness ==
    \E c \in Conns :
        /\ OneDirectionDone(c)
        /\ up[c] = "done"
        /\ bout[c] = <<>>
        /\ ~bclose[c]
        /\ ~ENABLED handleConnection(c)
        /\ csock[c] = "open"
        /\ bsock[c] = "open"

\* the Resolve call of connection c ran into the deadline
ResolveTimedOut(c) == resolveCalls[c] > 0 /\ resolveWait[c] >= ResolveDeadline

Upgraded(c) == hsErr[c] = "" /\ clientConn[c] >= 1

\* C20: after a successful handshake with a TLS upgrade, every relayed byte is
\* read from and written to the wrapper the handler returned; the conn Serve
\* accepted is closed only when the worker has returned.
C20_RelayThroughReturnedConn ==
    \A c \in Conns :
        Upgraded(c) =>
            /\ clientConn[c] = frames[c][Len(frames[c])].layer
            /\ \A w \in 1..Len(cout[c]) :
                  cout[c][w].from = "relay" => cout[c][w].layer = clientConn[c]
            /\ upSrc[c] \in {NilConn, clientConn[c]}
            /\ csock[c] = "closed" => pc[c] = "done"

\* bytes went both ways through the wrapper
C20_Witness ==
    \E c \in Conns :
        /\ Upgraded(c)
        /\ upSrc[c] = 1
        /\ bin[c] = replayed[c] \o <<81>>
        /\ \E w \in 1..Len(cout[c]) :
              cout[c][w] = [layer |-> 1, from |-> "relay", frame |-> 0, data |-> <<82>>]
        /\ up[c] = "done"
        /\ csock[c] = "open"

\* the bytes of the frames Handshake has read on connection c, in order
RECURSIVE FrameBytes(_)
FrameBytes(fs) ==
    IF Len(fs) = 0 THEN <<>>
    ELSE fs[1].header \o fs[1].payload \o FrameBytes(Tail(fs))

IsPrefix(a, b) == Len(a) <= Len(b) /\ SubSeq(b, 1, Len(a)) = a

\* what the backend of connection c has received after the replay bytes
Relayed(c) == SubSeq(bin[c], Len(replayed[c]) + 1, Len(bin[c]))

\* every frame read so far on connection c was read in full
FramesComplete(c) ==
    \A i \in 1..Len(frames[c]) : frames[c][i].class \in {"ssl", "startup", "rejected"}

\* C21: the handshake takes from the client exactly the bytes of the frames it
\* reads; the backend receives the replay bytes and after them the bytes the
\* client sent after its startup frame, in order: at any time what the
\* handshake took, what was relayed and what is still to come make up the
\* client's stream, and nothing else has reached the backend.
C21_ExactConsumptionInOrderRelay ==
    \A c \in Conns :
        (c <= accepted /\ FramesComplete(c)) =>
            /\ IsPrefix(replayed[c], bin[c])
            /\ LET taken == FrameBytes(frames[c]) \o Relayed(c)
               IN  \E s \in ClientScripts :
                     /\ IsPrefix(taken, s.bytes)
                     /\ up[c] # "done" => taken \o cin[c] = s.bytes

\* a rewritten replay frame, then the client's query byte, and the client's
\* stream used up
C21_Witness ==
    \E c \in Conns :
        /\ Len(frames[c]) = 1
        /\ frames[c][1].class = "startup"
        /\ replayed[c] # <<>>
        /\ replayed[c] # FrameBytes(frames[c])
        /\ bin[c] = replayed[c] \o <<81>>
        /\ cin[c] = <<>>
        /\ up[c] = "run"

\* the user parameter of the frame stored for replay
ReplayUser(c) == ReplayParams(c)[kUser]

\* C22: the user of the frame sent to the backend differs from the client's
\* user only when the client's user matches the tenant format, and it is then
\* the username derived from it; for a user without separator, or of two
\* segments ending in pool, the stored frame is the client's frame verbatim,
\* whatever other parameters the client sent.
C22_UserRewrittenOnlyWhenDerived ==
    \A c \in Conns :
        (Accepted(c) /\ Has(ClientParams(c), kUser)) =>
            LET u == ClientParams(c)[kUser] IN
            /\ Has(metadata[c], kRawStartupMessage)
            /\ UserRewritten(c) =>
                  /\ TenantFormat(u)
                  /\ Has(ReplayParams(c), kUser)
                  /\ ReplayUser(c) = Derived(u)[kUsername]
            /\ ~TenantFormat(u) =>
                  metadata[c][kRawStartupMessage]
                      = frames[c][Len(frames[c])].header \o LastPayload(c)

\* the handshake of connection c succeeded on a startup frame and stored
\* replay bytes for it
Replayable(c) ==
    /\ hsErr[c] = ""
    /\ Len(frames[c]) >= 1
    /\ frames[c][Len(frames[c])].class = "startup"
    /\ Has(metadata[c], kRawStartupMessage)

\* C23: two handshakes over byte-identical startup frames store
\* byte-identical replay bytes: rebuildStartupMessage gives one byte sequence
\* for one version and one parameter map.
C23_DeterministicEncoding ==
    \A c, d \in Conns :
        (Replayable(c) /\ Replayable(d) /\ LastPayload(c) = LastPayload(d)) =>
            metadata[c][kRawStartupMessage] = metadata[d][kRawStartupMessage]

\* the accept loop of Serve is no longer there to accept
LoopEnded == ~(proc = "running" /\ serve = "accepting")

\* C24: whatever the workers of the accepted connections are doing, the loop
\* can accept the next connection; the loop ends only by an error of Accept,
\* which Serve returns.
C24_AcceptLoopIndependent ==
    /\ (~LoopEnded /\ accepted < NumConns) => ENABLED Accept(accepted + 1)
    /\ LoopEnded => serve = "returned"

\* the number of SSLRequest frames among the first n frames of connection c
RECURSIVE SSLCount(_, _)
SSLCount(c, n) ==
    IF n = 0 THEN 0
    ELSE SSLCount(c, n - 1) + (IF frames[c][n].class = "ssl" THEN 1 ELSE 0)

\* C25: an SSLRequest is accepted on whatever conn it arrives, a TLS wrapper
\* included: each one is read from the wrapper made for the one before it, is
\* answered with 'S' on that conn and followed by a TLS handshake on top of
\* it, any number of times; a successful handshake returns the innermost
\* wrapper.
C25_NestedUpgrades ==
    \A c \in Conns :
        /\ \A i \in 1..Len(frames[c]) :
              /\ frames[c][i].layer = SSLCount(c, i - 1)
              /\ (frames[c][i].class = "ssl" /\ frames[c][i].layer >= 1) =>
                    \/ hsErr[c] = "failed to write SSL response" /\ i = Len(frames[c])
                    \/ \E w \in 1..Len(cout[c]) :
                          cout[c][w] = [layer |-> frames[c][i].layer, from |-> "handshake",
                                        frame |-> i, data |-> <<83>>]
        /\ layer[c] <= SSLCount(c, Len(frames[c]))
        /\ Accepted(c) =>
              /\ clientConn[c] = SSLCount(c, Len(frames[c]))
              /\ clientConn[c] = layer[c]

\* three SSLRequests in a row were each answered and the third wrapper returned
C25_Witness ==
    \E c \in Conns :
        /\ Accepted(c)
        /\ Len(frames[c]) = 4
        /\ SSLCount(c, 4) = 3
        /\ clientConn[c] = 3
        /\ Len(cout[c]) = 3
        /\ cout[c][3] = [layer |-> 2, from |-> "handshake", frame |-> 3, data |-> <<83>>]

\* C26: the message sendErrorResponse passes to the write is 'E', the length
\* of all that follows the type byte, then three NUL-terminated fields, 'S'
\* with the severity, 'C' with the code, 'M' with the message, in that order,
\* then one NUL, and nothing after it.
C26_ErrorResponseLayout ==
    rt.kind = "sent" =>
        LET b == rt.bytes
            f == Fields(Tail0(b, 5))
        IN  /\ Len(b) >= 5
            /\ b[1] = 69
            /\ Uint32(SubSeq(b, 2, 5)) = Len(b) - 1
            /\ Len(f) = 5
            /\ f[1] = <<83>> \o rt.params[<<83>>]
            /\ f[2] = <<67>> \o rt.params[<<67>>]
            /\ f[3] = <<77>> \o rt.params[<<77>>]
            /\ f[4] = <<>>
            /\ f[5] = <<>>

\* FATAL/08006 with an empty message: 22 bytes
C26_Witness ==
    /\ rt.kind = "sent"
    /\ rt.params[<<83>>] = <<70, 65, 84, 65, 76>>
    /\ rt.params[<<67>>] = <<48, 56, 48, 48, 54>>
    /\ rt.params[<<77>>] = <<>>
    /\ Len(rt.bytes) = 22
    /\ rt.err = ""

====
